---- MODULE Spec2Model ----
(***************************************************************************)
(* MSTRTickerBot (src/main.py): the polling-and-propagation scheduler.     *)
(*                                                                         *)
(* One asyncio event loop runs everything.  The state below changes only   *)
(* between suspension points: the blocking fetch (requests.get), each      *)
(* `await member.edit`, the loop's sleep between iterations and the wait   *)
(* for readiness.  Time is counted in whole minutes; the clock is taken    *)
(* to be non-decreasing.  Prices and changes are in cents.  The one-code-  *)
(* point glyphs U+1F4C8 / U+1F4C9 are written "^" / "v" (len() counts each *)
(* as one character).                                                      *)
(*                                                                         *)
(* discord.ext.tasks.Loop (the decorator of update_price_task) is the      *)
(* library's sequential loop: run the body, then sleep until the next      *)
(* iteration time; cancel() cancels the loop's task, which raises          *)
(* CancelledError (a BaseException) at the await the task is suspended in. *)
(***************************************************************************)
EXTENDS Integers, Sequences, FiniteSets, TLC

VARIABLES
    now,                \* datetime.now(), in minutes
    update_interval,    \* self.update_interval (UPDATE_INTERVAL_MINUTES)
    current_price,      \* self.current_price
    last_update,        \* self.last_update
    api_call_count,     \* self.api_call_count
    ready,              \* the client's readiness signal (wait_until_ready)
    pc,                 \* where the task of update_price_task is
    next_iteration,     \* the Loop's next iteration time
    nickname,           \* update_nickname_in_guilds: its argument
    targets,            \* update_nickname_in_guilds: len(self.guilds) of this call
    gi,                 \* update_nickname_in_guilds: the guild being processed
    updated_guilds,     \* update_nickname_in_guilds: updated_guilds
    outcomes,           \* how many guilds of this call ended in each way (the log lines)
    nick,               \* the bot's nickname in each guild, on the platform
    cancel_requested,   \* Loop.cancel() was called, CancelledError not yet raised
    closing,            \* close() was called
    closed,             \* super().close() has released the connection
    last_fetch,         \* outcome of the latest fetch: "none", "ok", "fail"
    loops,              \* how many tasks of update_price_task are running
    arg                 \* the argument of a function called on its own

vars == <<now, update_interval, current_price, last_update, api_call_count, ready,
          pc, next_iteration, nickname, targets, gi, updated_guilds, outcomes, nick,
          cancel_requested, closing, closed, last_fetch, loops, arg>>

\* Python's None, for the fields that otherwise hold a record.
None == [isnone |-> TRUE]
\* A datetime held in self.last_update.
At(t) == [at |-> t]
\* No nickname (the bot shows its user name).
NoNick == ""

\* ---------------------------------------------------------------- bounds
MaxTime == 3
NumGuilds == 2
MaxInterval == 2
\* The minute at which the scenario of the spec's section 8 is left.
ScenarioEnd == 7

\* ------------------------------------------------------------- constants
\* @tasks.loop(minutes=1)
TickMinutes == 1
\* Discord's nickname limit, `if len(nickname) > 32`
NickLimit == 32

\* ------------------------------------------------------- fetch_mstr_price
\* The quotes the provider may report: [price, change] in cents.
Quotes == { [price |-> 35012, change |-> 450], [price |-> 34800, change |-> -212] }

\* What requests.get / raise_for_status / response.json() may produce.
\*   kind "network": a RequestException (timeout, connection, HTTP status)
\*   kind "badjson": response.json() raises ValueError
\*   kind "json":    a parsed body; err / note are the 'Error Message' / 'Note'
\*                   keys, quote is whether 'Global Quote' is "absent", "empty"
\*                   or "present" (then q holds its numbers), price_ok whether
\*                   '05. price' is present and numeric, has_change whether
\*                   '09. change' is present, change_ok whether float()
\*                   accepts it.
Shapes ==
    { [kind |-> k, err |-> FALSE, note |-> FALSE, quote |-> "absent",
       q |-> None, price_ok |-> FALSE, has_change |-> FALSE, change_ok |-> FALSE] :
         k \in {"network", "badjson"} }
    \cup
    { [kind |-> "json", err |-> e, note |-> n, quote |-> "present",
       q |-> qq, price_ok |-> p, has_change |-> c, change_ok |-> (c /\ ck)] :
         e \in BOOLEAN, n \in BOOLEAN, qq \in Quotes, p \in BOOLEAN, c \in BOOLEAN,
         ck \in BOOLEAN }
    \cup
    { [kind |-> "json", err |-> e, note |-> n, quote |-> k,
       q |-> None, price_ok |-> FALSE, has_change |-> FALSE, change_ok |-> FALSE] :
         e \in BOOLEAN, n \in BOOLEAN, k \in {"absent", "empty"} }

\* The responses the scheduler is run against: every shape, the change
\* field being left out of the rising quote only.
Responses == { r \in Shapes : r.quote = "present" /\ ~r.has_change => r.q.change > 0 }

\* Line 82: the counter is incremented once response.json() has returned.
Counted(resp) == resp.kind = "json"

\* The quote looked at before the error fields.
ParseResponse_quoteFirst(resp, t) ==
    IF resp.kind # "json" THEN None
    ELSE IF resp.quote = "present" /\ resp.price_ok /\ (resp.has_change => resp.change_ok)
         THEN [price |-> resp.q.price,
               change |-> IF resp.has_change THEN resp.q.change ELSE 0,
               timestamp |-> t]
         ELSE None

\* Lines 84-123: the value fetch_mstr_price returns at time t, None on every
\* failure (float() of line 104 or 106 raising ValueError included).
ParseResponse(resp, t) ==
    IF resp.kind # "json" THEN None
    ELSE IF resp.err THEN None
    ELSE IF resp.note THEN None
    ELSE IF resp.quote # "present" THEN None
    ELSE IF ~resp.price_ok THEN None
    ELSE IF resp.has_change /\ ~resp.change_ok THEN None
    ELSE [price |-> resp.q.price,
          change |-> IF resp.has_change THEN resp.q.change ELSE 0,
          timestamp |-> t]

\* -------------------------------------------------- format_price_nickname
TwoDigits(n) == IF n < 10 THEN "0" \o ToString(n) ELSE ToString(n)

\* f"{price:.2f}" of a non-negative price given in cents
Fixed2(cents) == ToString(cents \div 100) \o "." \o TwoDigits(cents % 100)

\* f"{change:+.2f}" (line 135) of a change given in cents
Signed2(cents) == IF cents < 0 THEN "-" \o Fixed2(0 - cents) ELSE "+" \o Fixed2(cents)

\* The label with change_str appended and no check of the limit.
format_price_nickname_verbose(price_data) ==
    IF price_data = None THEN "MSTR: Error"
    ELSE LET change_symbol == IF price_data.change >= 0 THEN "^" ELSE "v"
         IN  "$MSTR: $" \o Fixed2(price_data.price) \o " " \o change_symbol
                \o " (" \o Signed2(price_data.change) \o ")"

\* The rising glyph kept for strictly positive changes.
format_price_nickname_positive(price_data) ==
    IF price_data = None THEN "MSTR: Error"
    ELSE LET change_symbol == IF price_data.change > 0 THEN "^" ELSE "v"
             primary == "$MSTR: $" \o Fixed2(price_data.price) \o " " \o change_symbol
         IN  IF Len(primary) > NickLimit
             THEN "MSTR: $" \o Fixed2(price_data.price)
             ELSE primary

\* The limit taken to be 16 characters.
format_price_nickname_narrow(price_data) ==
    IF price_data = None THEN "MSTR: Error"
    ELSE LET change_symbol == IF price_data.change >= 0 THEN "^" ELSE "v"
             primary == "$MSTR: $" \o Fixed2(price_data.price) \o " " \o change_symbol
         IN  IF Len(primary) > 16
             THEN "MSTR: $" \o Fixed2(price_data.price)
             ELSE primary

format_price_nickname(price_data) ==
    IF price_data = None THEN "MSTR: Error"
    ELSE LET change_symbol == IF price_data.change >= 0 THEN "^" ELSE "v"
             primary == "$MSTR: $" \o Fixed2(price_data.price) \o " " \o change_symbol
         IN  IF Len(primary) > NickLimit
             THEN "MSTR: $" \o Fixed2(price_data.price)
             ELSE primary

\* Line 206
error_nickname == "MSTR: API Error"

\* ---------------------------------------------------------------- state
\* The ways the processing of one guild can end: the bot's member record is
\* absent (line 163), the edit returns (160), raises discord.Forbidden (165),
\* discord.HTTPException (167) or another Exception (169).
EditOutcomes == {"ok", "forbidden", "http", "other"}
Outcomes == {"absent"} \cup EditOutcomes
NoOutcomes == [o \in Outcomes |-> 0]
Logged(log, o) == [log EXCEPT ![o] = @ + 1]

Init ==
    /\ now = 0
    /\ update_interval \in 0..MaxInterval
    /\ current_price = None
    /\ last_update = None
    /\ api_call_count = 0
    /\ ready = FALSE
    /\ pc = "not_started"
    /\ next_iteration = 0
    /\ nickname = NoNick
    /\ targets = 0
    /\ gi = 0
    /\ updated_guilds = 0
    /\ outcomes = NoOutcomes
    /\ nick = [g \in 1..NumGuilds |-> NoNick]
    /\ cancel_requested = FALSE
    /\ closing = FALSE
    /\ closed = FALSE
    /\ last_fetch = "none"
    /\ loops = 0
    /\ arg = None

\* Loop.is_running(): the task exists and is not done.
is_running == pc \notin {"not_started", "cancelled"}

\* The body of update_price_task is between its first and last statement.
InFlight == pc \in {"fetch", "fanout", "edit"}

\* The due check with > for >=.
Due_strict == \/ last_update = None
              \/ (now - last_update.at) * 60 > update_interval * 60

\* Lines 180-181
Due == \/ last_update = None
       \/ (now - last_update.at) * 60 >= update_interval * 60

\* ------------------------------------------------------- the environment
\* Time passes while the task sleeps (until its wake-up time), while the
\* blocking fetch runs and while an edit is awaited.
Advance ==
    /\ now < MaxTime
    /\ \/ pc \in {"fetch", "edit"}
       \/ pc = "sleep" /\ now < next_iteration
    /\ now' = now + 1
    /\ UNCHANGED <<update_interval, current_price, last_update, api_call_count, ready,
                   pc, next_iteration, nickname, targets, gi, updated_guilds, outcomes,
                   nick, cancel_requested, closing, closed,
                   last_fetch, loops, arg>>

\* The gateway session drops; the client is no longer ready.
Disconnect ==
    /\ ready /\ ~closing
    /\ pc # "fetch" /\ pc # "fanout"
    /\ ready' = FALSE
    /\ UNCHANGED <<now, update_interval, current_price, last_update, api_call_count,
                   pc, next_iteration, nickname, targets, gi, updated_guilds, outcomes,
                   nick, cancel_requested, closing, closed,
                   last_fetch, loops, arg>>

\* ----------------------------------------------------------- on_ready
\* The task started on every readiness event.
StartTask_unguarded ==
    /\ pc' = IF ~is_running THEN "before_loop" ELSE pc
    /\ loops' = loops + 1

\* Lines 55-56: update_price_task.start(), unless the task is running.
StartTask ==
    IF ~is_running
    THEN pc' = "before_loop" /\ loops' = loops + 1
    ELSE UNCHANGED <<pc, loops>>

\* Lines 48-57: the client became ready; start the loop unless it runs.
on_ready ==
    /\ ~ready /\ ~closing
    /\ pc # "fetch" /\ pc # "fanout"
    /\ ready' = TRUE
    /\ StartTask
    /\ UNCHANGED <<now, update_interval, current_price, last_update, api_call_count,
                   next_iteration, nickname, targets, gi, updated_guilds, outcomes,
                   nick, cancel_requested, closing, closed,
                   last_fetch, arg>>

\* before_loop returning without waiting for the client.
before_update_price_task_nowait ==
    /\ pc = "before_loop" /\ ~cancel_requested
    /\ pc' = "sleep"
    /\ next_iteration' = now
    /\ UNCHANGED <<now, update_interval, current_price, last_update, api_call_count,
                   ready, nickname, targets, gi, updated_guilds, outcomes, nick,
                   cancel_requested, closing, closed, last_fetch, loops, arg>>

\* Lines 212-215: before_loop returns once the client is ready; the Loop
\* then schedules its first iteration for the current time.
before_update_price_task ==
    /\ pc = "before_loop" /\ ready /\ ~cancel_requested
    /\ pc' = "sleep"
    /\ next_iteration' = now
    /\ UNCHANGED <<now, update_interval, current_price, last_update, api_call_count,
                   ready, nickname, targets, gi, updated_guilds, outcomes, nick,
                   cancel_requested, closing, closed, last_fetch, loops, arg>>

\* ------------------------------------------------- the end of an iteration
\* Loop, after the body returned: an iteration time that has already passed
\* is replaced by the current time, so the next iteration follows at once.
AfterBody_keep == next_iteration

AfterBody == IF now > next_iteration THEN now ELSE next_iteration

\* update_price_task returns (line 199, 202/205, 207 or a not-due tick).
EndBody ==
    /\ pc' = "sleep"
    /\ next_iteration' = AfterBody
    /\ nickname' = NoNick /\ targets' = 0 /\ gi' = 0 /\ updated_guilds' = 0
    /\ outcomes' = NoOutcomes

\* update_nickname_in_guilds is called with this label (lines 146-150).
StartFanout(label) ==
    /\ pc' = "fanout"
    /\ nickname' = label
    /\ targets' \in 0..NumGuilds
    /\ gi' = 1
    /\ updated_guilds' = 0
    /\ outcomes' = NoOutcomes
    /\ UNCHANGED next_iteration

\* ------------------------------------------------------ update_price_task
\* Lines 175-186: an iteration of the loop begins; the due check.
Tick ==
    /\ pc = "sleep" /\ now >= next_iteration /\ ~cancel_requested
    /\ IF Due
       THEN /\ pc' = "fetch"
            /\ next_iteration' = next_iteration + TickMinutes
       ELSE /\ pc' = "sleep"
            /\ next_iteration' = next_iteration + TickMinutes
    /\ UNCHANGED <<now, update_interval, current_price, last_update, api_call_count,
                   ready, nickname, targets, gi, updated_guilds, outcomes, nick,
                   cancel_requested, closing, closed, last_fetch, loops, arg>>

\* The success branch with last_update assigned only after the fanout.
OnFetchSuccess_late(price_data) ==
    /\ current_price' = price_data
    /\ UNCHANGED last_update
    /\ StartFanout(format_price_nickname(price_data))

\* Lines 188-194: the fetch returned a snapshot.
OnFetchSuccess(price_data) ==
    /\ current_price' = price_data
    /\ last_update' = At(now)
    /\ StartFanout(format_price_nickname(price_data))

\* The failure branch stamping last_update (waiting a full interval).
OnFetchFailure_stamp ==
    /\ UNCHANGED current_price
    /\ last_update' = At(now)
    /\ IF current_price = None
       THEN StartFanout(error_nickname)
       ELSE EndBody

\* The failure branch clearing the snapshot it could not refresh.
OnFetchFailure_clear ==
    /\ current_price' = None
    /\ last_update' = None
    /\ IF current_price = None
       THEN StartFanout(error_nickname)
       ELSE EndBody

\* The failure branch showing the error label whatever was fetched before.
OnFetchFailure_always ==
    /\ UNCHANGED <<current_price, last_update>>
    /\ StartFanout(error_nickname)

\* The failure branch that only logs.
OnFetchFailure_silent ==
    /\ UNCHANGED <<current_price, last_update>>
    /\ EndBody

\* Lines 201-207: the fetch returned None.
OnFetchFailure ==
    /\ UNCHANGED <<current_price, last_update>>
    /\ IF current_price = None
       THEN StartFanout(error_nickname)
       ELSE EndBody

\* Lines 186-207 with fetch_mstr_price (67-123): the blocking fetch ends
\* with response resp.
Fetch(resp) ==
    /\ pc = "fetch"
    /\ api_call_count' = IF Counted(resp) THEN api_call_count + 1 ELSE api_call_count
    /\ LET price_data == ParseResponse(resp, now)
       IN  IF price_data # None
           THEN OnFetchSuccess(price_data) /\ last_fetch' = "ok"
           ELSE OnFetchFailure /\ last_fetch' = "fail"
    /\ UNCHANGED <<now, update_interval, ready, nick, cancel_requested, closing,
                   closed, loops, arg>>

\* ----------------------------------------------- update_nickname_in_guilds
\* Lines 150-163 and 172-173: the next guild, up to the await; or the return.
FanoutStep ==
    /\ pc = "fanout"
    /\ IF gi > targets
       THEN /\ EndBody
            /\ UNCHANGED nick
       ELSE \E member \in BOOLEAN :
              /\ IF member
                 THEN /\ pc' = "edit"
                      /\ UNCHANGED <<gi, outcomes>>
                 ELSE /\ pc' = "fanout"
                      /\ gi' = gi + 1
                      /\ outcomes' = Logged(outcomes, "absent")
              /\ UNCHANGED <<next_iteration, nickname, targets, updated_guilds, nick>>
    /\ UNCHANGED <<now, update_interval, current_price, last_update, api_call_count,
                   ready, cancel_requested, closing, closed, last_fetch, loops, arg>>

\* The edit counted before it is awaited.
EditResult_countFirst(outcome) ==
    /\ updated_guilds' = updated_guilds + 1
    /\ nick' = IF outcome = "ok" THEN [nick EXCEPT ![gi] = nickname] ELSE nick
    /\ gi' = gi + 1
    /\ outcomes' = Logged(outcomes, outcome)
    /\ pc' = "fanout"

\* An error that is neither Forbidden nor HTTPException leaves the handlers
\* and ends the task.
EditResult_unhandled(outcome) ==
    /\ updated_guilds' = IF outcome = "ok" THEN updated_guilds + 1 ELSE updated_guilds
    /\ nick' = IF outcome = "ok" THEN [nick EXCEPT ![gi] = nickname] ELSE nick
    /\ gi' = gi + 1
    /\ outcomes' = Logged(outcomes, outcome)
    /\ pc' = IF outcome = "other" THEN "cancelled" ELSE "fanout"

\* Lines 159-170: `await member.edit(nick=nickname)` completes or raises.
EditResult(outcome) ==
    /\ updated_guilds' = IF outcome = "ok" THEN updated_guilds + 1 ELSE updated_guilds
    /\ nick' = IF outcome = "ok" THEN [nick EXCEPT ![gi] = nickname] ELSE nick
    /\ gi' = gi + 1
    /\ outcomes' = Logged(outcomes, outcome)
    /\ pc' = "fanout"

EditDone ==
    /\ pc = "edit" /\ ~cancel_requested
    /\ \E outcome \in EditOutcomes : EditResult(outcome)
    /\ UNCHANGED <<now, update_interval, current_price, last_update, api_call_count,
                   ready, next_iteration, nickname, targets, cancel_requested, closing,
                   closed, last_fetch, loops, arg>>

\* ------------------------------------------------------------------ close
\* Lines 217-221: close() cancels the loop's task.
close ==
    /\ ~closing
    /\ pc # "fetch" /\ pc # "fanout"
    /\ closing' = TRUE
    /\ cancel_requested' = is_running
    /\ UNCHANGED <<now, update_interval, current_price, last_update, api_call_count,
                   ready, pc, next_iteration, nickname, targets, gi, updated_guilds,
                   outcomes, nick, closed, last_fetch, loops, arg>>

\* The cancelled task resumes: CancelledError is raised at its await and,
\* not being an Exception, passes lines 165-170 and 209.  An edit whose
\* request was already sent may still take effect on the platform.
Cancelled ==
    /\ cancel_requested
    /\ pc \in {"before_loop", "sleep", "edit"}
    /\ pc' = "cancelled"
    /\ loops' = loops - 1
    /\ cancel_requested' = FALSE
    /\ nick' \in IF pc = "edit" THEN {nick, [nick EXCEPT ![gi] = nickname]} ELSE {nick}
    /\ UNCHANGED <<now, update_interval, current_price, last_update, api_call_count,
                   ready, next_iteration, nickname, targets, gi, updated_guilds,
                   outcomes, closing, closed, last_fetch, arg>>

\* Line 222: super().close() releases the connection.
ReleaseConnection ==
    /\ closing /\ ~closed /\ ~cancel_requested
    /\ closed' = TRUE
    /\ ready' = FALSE
    /\ UNCHANGED <<now, update_interval, current_price, last_update, api_call_count,
                   pc, next_iteration, nickname, targets, gi, updated_guilds, outcomes,
                   nick, cancel_requested, closing, last_fetch, loops, arg>>

\* ------------------------------------------------------------ the steps
\* An iteration begins: the body of update_price_task runs its due check.
TickStep == pc = "sleep" /\ pc' \in {"sleep", "fetch"} /\ next_iteration' # next_iteration
\* fetch_mstr_price returns.
FetchStep == pc = "fetch" /\ pc' # "fetch"
FetchFailStep == FetchStep /\ last_fetch' = "fail"
\* update_price_task returns after a fetch.
BodyEnd == pc \in {"fetch", "fanout"} /\ pc' = "sleep"
\* The targets processed so far by the running fanout.
Processed == outcomes["absent"] + outcomes["ok"] + outcomes["forbidden"]
               + outcomes["http"] + outcomes["other"]

\* ------------------------------------------------------------------ C1
\* C1: in every reachable state, the suspension points of the fanout
\* included, last_update is set if and only if current_price is set.
C1_PairedState == (last_update = None) <=> (current_price = None)

\* A snapshot is held while the fanout is suspended in an edit.
C1_Witness == pc = "edit" /\ current_price # None /\ last_update # None

\* ------------------------------------------------------------------ C2
\* C2: the step on which a fetch fails, and every step of the error fanout
\* that follows it in the same tick, leaves last_update and current_price
\* as they were before the tick.
C2_FailedFetchKeepsState ==
    [][ (FetchFailStep \/ (pc \in {"fanout", "edit"} /\ last_fetch = "fail"))
          => UNCHANGED <<current_price, last_update>> ]_vars

\* A fetch failed after an earlier one succeeded, and time has moved on.
C2_Witness ==
    /\ last_fetch = "fail" /\ pc = "sleep"
    /\ last_update # None /\ current_price # None
    /\ now > last_update.at

\* ------------------------------------------------------------------ C3
\* Due, as the claim words it (in minutes).
C3_due == \/ last_update = None
          \/ now - last_update.at >= update_interval

\* C3: a tick goes on to fetch if and only if it is due, a fetch is only
\* ever begun by a due tick, and a tick that is not due returns at once,
\* leaving the snapshot, last_update, the counter and every nickname alone.
C3_FetchIffDue ==
    [][ /\ TickStep => ((pc' = "fetch") <=> C3_due)
        /\ (pc # "fetch" /\ pc' = "fetch") => (TickStep /\ C3_due)
        /\ (TickStep /\ ~C3_due) =>
              /\ pc' = "sleep"
              /\ UNCHANGED <<current_price, last_update, api_call_count, nick,
                             nickname, targets, gi, updated_guilds, last_fetch>> ]_vars

\* A tick that was not due has just returned: the next one is a minute away.
C3_Witness ==
    /\ pc = "sleep" /\ last_update # None
    /\ ~C3_due
    /\ now > last_update.at
    /\ next_iteration = now + TickMinutes

\* ------------------------------------------------------------------ C4
\* C4: from a failed fetch until the next successful one every state is due,
\* so every tick in between goes on to fetch; and the only step that turns
\* a due state into one that is not due is a successful fetch.
C4_RetryUntilSuccess ==
    /\ [](last_fetch = "fail" => C3_due)
    /\ [][ /\ (TickStep /\ last_fetch = "fail") => pc' = "fetch"
           /\ (C3_due /\ ~C3_due') => (FetchStep /\ last_fetch' = "ok") ]_vars

\* A later tick is fetching again after a failure that followed a success.
C4_Witness ==
    /\ pc = "fetch" /\ last_fetch = "fail"
    /\ last_update # None /\ update_interval > 0

C6_FanoutCountsSuccesses ==
    /\ [](pc \in {"fanout", "edit"} =>
            /\ updated_guilds = outcomes["ok"]
            /\ Processed = gi - 1
            /\ gi <= targets + 1
            /\ (outcomes["forbidden"] = Processed - outcomes["ok"]
                  => updated_guilds = Processed - outcomes["forbidden"]))
    /\ [][ (pc \in {"fanout", "edit"} /\ pc' \notin {"fanout", "edit"})
             => (Processed = targets \/ pc' = "cancelled") ]_vars

\* The fanout is about to return N - 1: one target denied, the rest edited.
C6_Witness ==
    /\ pc = "fanout" /\ gi > targets /\ targets = NumGuilds
    /\ outcomes["forbidden"] = 1 /\ outcomes["ok"] = NumGuilds - 1
    /\ updated_guilds = NumGuilds - 1

\* ------------------------------------------------------------------ C7
\* C7: once a snapshot is held, a failed fetch ends the tick without a
\* fanout and without changing any nickname, no fanout of the error label
\* is running, and no target's nickname becomes the error label.
C7_FailureKeepsDisplay ==
    [][ /\ (FetchFailStep /\ current_price # None) => (pc' = "sleep" /\ nick' = nick)
        /\ (current_price # None /\ pc' \in {"fanout", "edit"})
              => nickname' # error_nickname
        /\ current_price # None =>
              \A g \in 1..NumGuilds :
                  nick'[g] = error_nickname => nick[g] = error_nickname ]_vars

\* A fetch failed while some target shows the label of a snapshot.
C7_Witness ==
    /\ last_fetch = "fail" /\ pc = "sleep" /\ current_price # None
    /\ \E g \in 1..NumGuilds : nick[g] = format_price_nickname(current_price)

\* ------------------------------------------------------------------ C8
\* C8: every failed fetch while no snapshot is held starts a fanout of the
\* error label over the current targets, and while no snapshot is held no
\* other label is fanned out.
C8_ErrorLabelUntilFirstSnapshot ==
    /\ [][ (FetchFailStep /\ current_price = None) =>
              /\ pc' = "fanout" /\ nickname' = "MSTR: API Error"
              /\ gi' = 1 /\ updated_guilds' = 0 ]_vars
    /\ []((pc \in {"fanout", "edit"} /\ current_price = None)
             => nickname = "MSTR: API Error")

\* Every target shows the error label and no snapshot was ever obtained.
C8_Witness ==
    /\ current_price = None /\ last_fetch = "fail"
    /\ \A g \in 1..NumGuilds : nick[g] = "MSTR: API Error"

\* ------------------------------------------------------------------ C9
\* C9: the counter never decreases and every call of fetch_mstr_price,
\* whatever its outcome, increments it by exactly one.
C9_CounterCountsEveryFetch ==
    [][ /\ api_call_count' >= api_call_count
        /\ FetchStep => api_call_count' = api_call_count + 1 ]_vars

\* ------------------------------------------------------------------ C10
\* C10: after close() (a) no iteration begins, (b) a sequence in flight is
\* not aborted, and (c) the connection is released only when no sequence is
\* in flight.
C10_ShutdownLetsSequenceFinish ==
    [][ /\ closing => ~TickStep
        /\ InFlight => pc' # "cancelled"
        /\ (closed' /\ ~closed) => ~InFlight ]_vars

\* ------------------------------------------ format_price_nickname, alone
\* The default of UPDATE_INTERVAL_MINUTES (line 35)
DefaultInterval == 5

\* Every variable but pc, arg, nickname, current_price, api_call_count and
\* now, as __init__ leaves it with the default interval.
Constructed ==
    /\ update_interval = DefaultInterval
    /\ last_update = None
    /\ ready = FALSE
    /\ next_iteration = 0
    /\ targets = 0
    /\ gi = 0
    /\ updated_guilds = 0
    /\ outcomes = NoOutcomes
    /\ nick = [g \in 1..NumGuilds |-> NoNick]
    /\ cancel_requested = FALSE
    /\ closing = FALSE
    /\ closed = FALSE
    /\ last_fetch = "none"
    /\ loops = 0

\* Prices, in cents, of every width up to 9999999.00 (the widest rendering
\* of a price of 7 significant digits), and the prices of the spec's
\* scenarios; changes of either sign and zero.
FormatPrices ==
    {0, 1, 9, 10, 99, 100, 999, 1000, 9999, 10000, 34800, 35012, 99999, 100000,
     999999, 1000000, 9999999, 10000000, 12345678, 99999999, 100000000, 999999900}
FormatChanges == {-999999900, -212, -1, 0, 1, 450, 999999900}
FormatInputs ==
    { [price |-> p, change |-> c, timestamp |-> 0] :
        p \in FormatPrices, c \in FormatChanges } \cup {None}

InitFormat ==
    /\ Constructed
    /\ now = 0 /\ current_price = None /\ api_call_count = 0
    /\ pc = "format"
    /\ arg \in FormatInputs
    /\ nickname = NoNick

\* format_price_nickname(arg) returns (lines 125-144).
FormatReturn ==
    /\ pc = "format"
    /\ nickname' = format_price_nickname(arg)
    /\ pc' = "formatted"
    /\ UNCHANGED <<now, update_interval, current_price, last_update, api_call_count,
                   ready, next_iteration, targets, gi, updated_guilds, outcomes, nick,
                   cancel_requested, closing, closed, last_fetch, loops, arg>>

\* format_price_nickname is called again.
FormatCall ==
    /\ pc = "formatted"
    /\ arg' \in FormatInputs
    /\ nickname' = NoNick
    /\ pc' = "format"
    /\ UNCHANGED <<now, update_interval, current_price, last_update, api_call_count,
                   ready, next_iteration, targets, gi, updated_guilds, outcomes, nick,
                   cancel_requested, closing, closed, last_fetch, loops>>

NextFormat == FormatReturn \/ FormatCall

SpecFormat == InitFormat /\ [][NextFormat]_vars

\* ------------------------------------------------------------------ C11
\* C11: for every price of up to 7 significant digits and every change, the
\* label format_price_nickname returns is at most 32 characters long.
C11_LabelWithinLimit ==
    (pc = "formatted" /\ arg # None) => Len(nickname) <= 32

\* The widest valid price, 9999999.00, was rendered: 20 characters.
C11_Witness ==
    /\ pc = "formatted" /\ arg # None
    /\ arg.price = 999999900 /\ Len(nickname) = 20

\* ------------------------------------------------------------------ C12
\* The glyph closing the primary rendering of this price in a label, "none"
\* when the label is not a primary rendering.
TrendGlyph(label, price) ==
    IF label = "$MSTR: $" \o Fixed2(price) \o " ^" THEN "^"
    ELSE IF label = "$MSTR: $" \o Fixed2(price) \o " v" THEN "v"
    ELSE "none"

\* C12 as stated: the falling glyph for every change that is negative or
\* zero, the rising glyph for every change that is positive.
C12_GlyphBySign ==
    (pc = "formatted" /\ arg # None) =>
        TrendGlyph(nickname, arg.price) = IF arg.change > 0 THEN "^" ELSE "v"

\* C12 as amended: the rising glyph for every change that is positive or
\* zero, the falling glyph for every change that is negative.
C12_GlyphByNonNegative ==
    (pc = "formatted" /\ arg # None) =>
        TrendGlyph(nickname, arg.price) = IF arg.change >= 0 THEN "^" ELSE "v"

\* A snapshot whose change is zero was rendered with the rising glyph.
C12_Witness ==
    /\ pc = "formatted" /\ arg # None
    /\ arg.change = 0 /\ TrendGlyph(nickname, arg.price) = "^"

\* ------------------------------------------------------------------ C13
\* C13 as stated: the price 123456.78 is rendered by the fallback.
C13_FallbackFor123456 ==
    (pc = "formatted" /\ arg # None /\ arg.price = 12345678) =>
        nickname = "MSTR: $123456.78"

\* C13 as amended: the primary rendering of the price 123456.78 is 19
\* characters long, within the limit of 32, and it is what is returned.
C13_PrimaryFor123456 ==
    (pc = "formatted" /\ arg # None /\ arg.price = 12345678) =>
        /\ Len(nickname) = 19
        /\ nickname = "$MSTR: $123456.78 " \o (IF arg.change >= 0 THEN "^" ELSE "v")

\* The price 123456.78 with a falling change was rendered.
C13_Witness ==
    /\ pc = "formatted" /\ arg # None
    /\ arg.price = 12345678 /\ arg.change < 0
    /\ nickname = "$MSTR: $123456.78 v"

\* ------------------------------------------------------------------ C17
\* C17: the label fanned out while no snapshot is held is what
\* format_price_nickname(None) returns.
C17_ErrorLabelIsFormatNone ==
    (pc \in {"fanout", "edit"} /\ current_price = None) =>
        nickname = format_price_nickname(None)

\* ------------------------------------------------ fetch_mstr_price, alone
\* fetch_mstr_price is about to be called; the provider will answer arg.resp.
InitFetch ==
    /\ Constructed
    /\ now \in 0..MaxTime /\ current_price = None /\ api_call_count = 0
    /\ pc = "fetch_call"
    /\ arg \in { [resp |-> r, price_data |-> None] : r \in Shapes }
    /\ nickname = NoNick

\* fetch_mstr_price returns (lines 67-123).
FetchReturn ==
    /\ pc = "fetch_call"
    /\ arg' = [arg EXCEPT !.price_data = ParseResponse(arg.resp, now)]
    /\ api_call_count' = IF Counted(arg.resp) THEN api_call_count + 1 ELSE api_call_count
    /\ pc' = "fetch_returned"
    /\ UNCHANGED <<now, update_interval, current_price, last_update, ready,
                   next_iteration, nickname, targets, gi, updated_guilds, outcomes,
                   nick, cancel_requested, closing, closed, last_fetch, loops>>

NextFetch == FetchReturn

SpecFetch == InitFetch /\ [][NextFetch]_vars

\* ------------------------------------------------------------------ C16
\* What the claim requires of a parsed response for a snapshot.
C16_Accepted(resp) ==
    /\ ~resp.err /\ ~resp.note
    /\ resp.quote = "present"
    /\ resp.price_ok

\* C16 as stated: a parsed response yields a snapshot if and only if it has
\* no error field, no advisory field, a non-empty quote object and a numeric
\* price.
C16_SnapshotIffAccepted ==
    (pc = "fetch_returned" /\ arg.resp.kind = "json") =>
        ((arg.price_data # None) <=> C16_Accepted(arg.resp))

\* C16 as amended: ... and a change field that is absent or numeric; an error
\* or advisory field yields a failure even beside a valid quote object; the
\* snapshot carries the quote's price, and its change, or 0 when the change
\* field is missing.
C16_SnapshotIffWellFormed ==
    (pc = "fetch_returned" /\ arg.resp.kind = "json") =>
        /\ (arg.price_data # None) <=>
              (C16_Accepted(arg.resp) /\ (arg.resp.has_change => arg.resp.change_ok))
        /\ (arg.resp.err \/ arg.resp.note) => arg.price_data = None
        /\ arg.price_data # None =>
              /\ arg.price_data.price = arg.resp.q.price
              /\ arg.price_data.change =
                    IF arg.resp.has_change THEN arg.resp.q.change ELSE 0

\* A quote without a change field was returned as a snapshot of change 0.
C16_Witness ==
    /\ pc = "fetch_returned" /\ arg.resp.kind = "json"
    /\ ~arg.resp.has_change /\ arg.resp.q # None /\ arg.resp.q.change # 0
    /\ arg.price_data # None /\ arg.price_data.change = 0

\* -------------------------------------------- the scenario of section 8
\* interval = 5 minutes, ticks one minute apart; the fetch and the edits take
\* less than a minute.  The provider answers 350.12 / +4.50 at minute 0 and
\* 348.00 / -2.12 at minute 7; every other fetch fails in the transport.
ScenarioResponse(t) ==
    IF t = 0
    THEN [kind |-> "json", err |-> FALSE, note |-> FALSE, quote |-> "present",
          q |-> [price |-> 35012, change |-> 450], price_ok |-> TRUE,
          has_change |-> TRUE, change_ok |-> TRUE]
    ELSE IF t = 7
    THEN [kind |-> "json", err |-> FALSE, note |-> FALSE, quote |-> "present",
          q |-> [price |-> 34800, change |-> -212], price_ok |-> TRUE,
          has_change |-> TRUE, change_ok |-> TRUE]
    ELSE [kind |-> "network", err |-> FALSE, note |-> FALSE, quote |-> "absent",
          q |-> None, price_ok |-> FALSE, has_change |-> FALSE, change_ok |-> FALSE]

InitScenario ==
    /\ Constructed
    /\ now = 0 /\ current_price = None /\ api_call_count = 0
    /\ pc = "not_started"
    /\ arg = None
    /\ nickname = NoNick

\* A minute passes while the task sleeps.
ScenarioAdvance ==
    /\ now < ScenarioEnd
    /\ pc = "sleep" /\ now < next_iteration
    /\ now' = now + 1
    /\ UNCHANGED <<update_interval, current_price, last_update, api_call_count, ready,
                   pc, next_iteration, nickname, targets, gi, updated_guilds, outcomes,
                   nick, cancel_requested, closing, closed, last_fetch, loops, arg>>

ScenarioFetch == Fetch(ScenarioResponse(now))

NextScenario ==
    \/ on_ready
    \/ before_update_price_task
    \/ ScenarioAdvance
    \/ Tick
    \/ ScenarioFetch
    \/ FanoutStep
    \/ EditDone

SpecScenario == InitScenario /\ [][NextScenario]_vars

\* ------------------------------------------------------------------ C14
\* C14: in the scenario, the tick of minute 0 fetches, sets last_update = 0
\* and fans out the rising label of 350.12; the ticks of minutes 1 to 4 (that
\* of minute 2 among them) are not due and fetch nothing; the tick of minute
\* 6 is due, its fetch fails, no nickname is written and last_update stays 0;
\* the tick of minute 7 is due again, succeeds, sets last_update = 7 and fans
\* out the falling label of 348.00.
C14_Scenario ==
    /\ []( /\ (now = 0 /\ pc \in {"fanout", "edit"}) =>
                 (nickname = "$MSTR: $350.12 ^" /\ last_update = At(0))
           /\ (last_fetch # "none" /\ now <= 6) =>
                 /\ last_update = At(0)
                 /\ current_price.price = 35012 /\ current_price.change = 450
                 /\ \A g \in 1..NumGuilds : nick[g] \in {NoNick, "$MSTR: $350.12 ^"}
           /\ now \in 1..4 =>
                 (pc = "sleep" /\ api_call_count = 1 /\ last_fetch = "ok")
           /\ (now = 6 /\ pc = "sleep" /\ next_iteration = 7) =>
                 (last_fetch = "fail" /\ last_update = At(0))
           /\ (now = 7 /\ last_fetch = "ok") =>
                 /\ last_update = At(7)
                 /\ current_price.price = 34800 /\ current_price.change = -212
                 /\ pc \in {"fanout", "edit"} => nickname = "$MSTR: $348.00 v" )
    /\ [][ /\ (TickStep /\ now <= 7) => ((pc' = "fetch") <=> now \in {0, 5, 6, 7})
           /\ now \in 1..6 => nick' = nick ]_vars

\* Minute 7: every target shows the falling label and last_update is 7.
C14_Witness ==
    /\ now = 7 /\ pc = "sleep" /\ last_update = At(7)
    /\ \A g \in 1..NumGuilds : nick[g] = "$MSTR: $348.00 v"

\* ------------------------------------------------------------------ C15
\* C15: while nobody has asked for the shutdown, a step of the sequence
\* fetch, format, fanout - a failed fetch and a failed edit included - leaves
\* the task inside the sequence or back in the loop's sleep, with the next
\* iteration at most one period away; the loop is only ever ended by close();
\* a sleeping loop whose iteration time has come can take its tick, and that
\* tick fetches exactly when the due check of lines 180-181 holds.
C15_ErrorsStayInTick ==
    /\ [][ (InFlight /\ ~cancel_requested) =>
              /\ pc' \in {"fetch", "fanout", "edit", "sleep"}
              /\ loops' = loops
              /\ pc' = "sleep" => next_iteration' <= now + TickMinutes ]_vars
    /\ [](pc = "cancelled" => closing)
    /\ []((pc = "sleep" /\ ~cancel_requested /\ now >= next_iteration) => ENABLED Tick)
    /\ [][ TickStep => ((pc' = "fetch") <=> C3_due) ]_vars

\* A failed fetch was followed by a fanout of the error label in which one
\* edit raised an HTTP error and another an unexpected one; the fanout is
\* about to return to the loop.
C15_Witness ==
    /\ pc = "fanout" /\ gi > targets /\ last_fetch = "fail"
    /\ outcomes["other"] >= 1 /\ outcomes["http"] >= 1
    /\ ~closing /\ ~cancel_requested

\* ------------------------------------------------------------------ C18
\* C18: as long as the task has not been started, or waits in before_loop,
\* nothing was fetched, no snapshot is held and no nickname was written; and
\* the task goes from there into the loop (where the due checks are) only
\* in a state in which the client is ready.
C18_NothingBeforeReady ==
    /\ [](pc \in {"not_started", "before_loop"} =>
              /\ api_call_count = 0 /\ last_fetch = "none"
              /\ current_price = None /\ last_update = None
              /\ nickname = NoNick
              /\ \A g \in 1..NumGuilds : nick[g] = NoNick)
    /\ [][ (pc \in {"not_started", "before_loop"} /\
            pc' \notin {"not_started", "before_loop", "cancelled"})
           => (ready /\ pc' = "sleep" /\ UNCHANGED <<api_call_count, nick, last_update>>) ]_vars
    /\ [][ pc = "not_started" /\ pc' # "not_started" => (ready' /\ pc' = "before_loop") ]_vars

\* The started task waits in before_loop while the session is down.
C18_Witness == pc = "before_loop" /\ ~ready /\ ~closing /\ loops = 1

\* ------------------------------------------------------------------ C19
\* C19: the number of running loop tasks is 1 while the loop runs and 0
\* otherwise, so never more than one; and a readiness event that arrives
\* while the loop runs leaves the task where it is: no second task, the same
\* position, the same iteration time.
C19_AtMostOneLoop ==
    /\ [](loops <= 1 /\ loops = IF is_running THEN 1 ELSE 0)
    /\ [][ (~ready /\ ready' /\ is_running) =>
              UNCHANGED <<pc, loops, next_iteration>> ]_vars

\* The session was lost while the loop waits for an edit, and the readiness
\* event of the reconnection is delivered in this state.
C19_Witness ==
    /\ loops = 1 /\ pc = "edit" /\ ~ready
    /\ ENABLED (on_ready /\ is_running)

\* ------------------------------------------------------------------ C20
\* C20: the step in which a fetch succeeds sets current_price and
\* last_update = now and only starts the fanout (no nickname is written in
\* that step); no step of the fanout, whatever its edits do, changes either
\* field; and as long as less than update_interval has passed since
\* last_update, a tick fetches nothing and no fetch is in progress.
C20_StampBeforeFanout ==
    /\ [][ (FetchStep /\ last_fetch' = "ok") =>
              /\ last_update' = At(now) /\ current_price' # None
              /\ pc' = "fanout" /\ gi' = 1 /\ updated_guilds' = 0
              /\ nick' = nick ]_vars
    /\ [][ (pc \in {"fanout", "edit"}) => (UNCHANGED <<last_update, current_price>>) ]_vars
    /\ [][ (TickStep /\ last_update # None /\ now - last_update.at < update_interval)
              => (pc' = "sleep" /\ UNCHANGED <<api_call_count, nick, nickname>>) ]_vars
    /\ []((pc = "fetch" /\ last_update # None) => now - last_update.at >= update_interval)

\* The only fetch so far succeeded, its fanout updated no target, and a later
\* tick, less than an interval after it, has passed without a fetch.
C20_Witness ==
    /\ pc = "sleep" /\ last_fetch = "ok" /\ api_call_count = 1
    /\ \A g \in 1..NumGuilds : nick[g] = NoNick
    /\ last_update # None /\ now > last_update.at
    /\ now - last_update.at < update_interval
    /\ next_iteration > now
    /\ ~closing

\* ------------------------------------------------------------------ Next
Next ==
    \/ Advance
    \/ Disconnect
    \/ on_ready
    \/ before_update_price_task
    \/ Tick
    \/ \E resp \in Responses : Fetch(resp)
    \/ FanoutStep
    \/ EditDone
    \/ close
    \/ Cancelled
    \/ ReleaseConnection

Spec == Init /\ [][Next]_vars
====
